---------------------------- MODULE Spec2Model ----------------------------
(***************************************************************************)
(* A model of package form (src/options.go, src/encode.go): the Options    *)
(* validation, the reflective encoder that turns a value into a node tree, *)
(* the flattening of that tree into composite keys, and findField.         *)
(*                                                                         *)
(* Strings are sequences of one-character strings, so that escaping, tag   *)
(* splitting, case folding and decimal formatting are computed character   *)
(* by character.  A reflect.Value is a record                              *)
(*   [kind, n, s, isNil, elem, items]                                      *)
(* kind  : the reflect.Kind                                                *)
(* n     : the number held by an int / uint8 / bool (1 = true)             *)
(* s     : the text held by a string                                       *)
(* isNil : whether a func, chan, ptr, interface, slice or map is nil       *)
(* elem  : Type().Elem().Kind() of a slice or array                        *)
(* items : the struct's fields, the map's entries, the sequence's          *)
(*         elements, or the one pointee of a non-nil ptr / interface       *)
(* The value universe leaves out time.Time, url.URL, floats, complex       *)
(* numbers and types with a MarshalText method.                            *)
(***************************************************************************)
EXTENDS Integers, Sequences, FiniteSets, TLC

VARIABLES o, dst, op, arg, ret, w

vars == <<o, dst, op, arg, ret, w>>

-----------------------------------------------------------------------------
(* Characters and strings *)

NUL == "NUL"
Dot == "."
Backslash == "\\"
Comma == ","
Dash == "-"

EmptyString == <<>>
OMITEMPTY == <<"o", "m", "i", "t", "e", "m", "p", "t", "y">>

\* strings.ToLower, on the letters the model's names are written with
lowerRune(c) ==
  CASE c = "A" -> "a"
    [] c = "B" -> "b"
    [] c = "C" -> "c"
    [] c = "F" -> "f"
    [] c = "O" -> "o"
    [] c = "X" -> "x"
    [] OTHER -> c

ToLower(s) == [i \in 1..Len(s) |-> lowerRune(s[i])]

\* string(byte) for the bytes the model's byte sequences are made of
Chr(b) ==
  CASE b = 104 -> "h"
    [] b = 105 -> "i"
    [] b = 46 -> "."
    [] b = 92 -> "\\"
    [] OTHER -> "?"

Digit(d) ==
  CASE d = 0 -> "0" [] d = 1 -> "1" [] d = 2 -> "2" [] d = 3 -> "3"
    [] d = 4 -> "4" [] d = 5 -> "5" [] d = 6 -> "6" [] d = 7 -> "7"
    [] d = 8 -> "8" [] d = 9 -> "9"

RECURSIVE FormatUint(_)
\* strconv.FormatUint(n, 10)
FormatUint(n) ==
  IF n < 10 THEN <<Digit(n)>> ELSE FormatUint(n \div 10) \o <<Digit(n % 10)>>

\* strconv.FormatInt(n, 10) and strconv.Itoa(n)
FormatInt(n) == IF n < 0 THEN <<"-">> \o FormatUint(0 - n) ELSE FormatUint(n)

\* strings.SplitN(tag, ",", 2): the text before the first comma, and, when
\* there is a comma, the text after it
RECURSIVE IndexComma(_, _)
IndexComma(s, i) ==
  IF i > Len(s) THEN 0 ELSE IF s[i] = Comma THEN i ELSE IndexComma(s, i + 1)

SplitN2(tag) ==
  LET c == IndexComma(tag, 1) IN
  IF c = 0 THEN <<tag>>
  ELSE <<SubSeq(tag, 1, c - 1), SubSeq(tag, c + 1, Len(tag))>>

-----------------------------------------------------------------------------
(* Options: src/options.go *)

StandardDelimiter == Dot
StandardEscape == Backslash
StandardImplicitKey == <<"_">>
StandardOmittedKey == <<"-">>

MakeStandardOptions ==
  [unexported |-> 0, Zeros |-> FALSE, Tolerant |-> FALSE, Caseless |-> FALSE,
   Delimiter |-> StandardDelimiter, Escape |-> StandardEscape,
   ImplicitKey |-> StandardImplicitKey, OmittedKey |-> StandardOmittedKey]

Default == MakeStandardOptions

\* Options{}
ZeroOptions ==
  [unexported |-> 0, Zeros |-> FALSE, Tolerant |-> FALSE, Caseless |-> FALSE,
   Delimiter |-> NUL, Escape |-> NUL,
   ImplicitKey |-> EmptyString, OmittedKey |-> EmptyString]

ErrInvalidOptions == "invalid form options"
ErrInvalidDelimiter == "invalid form delimiter"
ErrInvalidEscape == "invalid form escape"
ErrInvalidImplicitKey == "invalid form implicit key"
ErrInvalidOmittedKey == "invalid form omitted key"
nil == "nil"

ValidateSkipsZeroTest(opts) ==
  IF opts.Delimiter = NUL THEN ErrInvalidDelimiter
  ELSE IF opts.Escape = NUL THEN ErrInvalidEscape
  ELSE IF opts.ImplicitKey = EmptyString THEN ErrInvalidImplicitKey
  ELSE IF opts.OmittedKey = EmptyString THEN ErrInvalidOmittedKey
  ELSE nil

Validate(opts) ==
  IF opts = ZeroOptions THEN ErrInvalidOptions
  ELSE IF opts.Delimiter = NUL THEN ErrInvalidDelimiter
  ELSE IF opts.Escape = NUL THEN ErrInvalidEscape
  ELSE IF opts.ImplicitKey = EmptyString THEN ErrInvalidImplicitKey
  ELSE IF opts.OmittedKey = EmptyString THEN ErrInvalidOmittedKey
  ELSE nil

IsValid(opts) == Validate(opts) = nil

-----------------------------------------------------------------------------
(* reflect.Value *)

V(kind, n, s, isNil, elem, items) ==
  [kind |-> kind, n |-> n, s |-> s, isNil |-> isNil, elem |-> elem, items |-> items]

\* The zero reflect.Value: ValueOf(nil), and Elem() of a nil ptr or interface
InvalidV == V("invalid", 0, EmptyString, FALSE, "", <<>>)

IntV(i) == V("int", i, EmptyString, FALSE, "", <<>>)
Uint8V(b) == V("uint8", b, EmptyString, FALSE, "", <<>>)
BoolV(b) == V("bool", IF b THEN 1 ELSE 0, EmptyString, FALSE, "", <<>>)
StringV(s) == V("string", 0, s, FALSE, "", <<>>)
FuncV(isNil) == V("func", 0, EmptyString, isNil, "", <<>>)
ChanV(isNil) == V("chan", 0, EmptyString, isNil, "", <<>>)

\* One entry of items.  name, tag, private (PkgPath # "") and anonymous are
\* the reflect.StructField of a struct's field; key is a map entry's key.
Item(name, tag, private, anonymous, key, v) ==
  [name |-> name, tag |-> tag, private |-> private, anonymous |-> anonymous,
   key |-> key, v |-> v]

Element(v) == Item(EmptyString, EmptyString, FALSE, FALSE, InvalidV, v)
Entry(key, v) == Item(EmptyString, EmptyString, FALSE, FALSE, key, v)
Field(name, tag, v) == Item(name, tag, FALSE, FALSE, InvalidV, v)
PrivateField(name, tag, v) == Item(name, tag, TRUE, FALSE, InvalidV, v)
Embedded(name, tag, v) == Item(name, tag, FALSE, TRUE, InvalidV, v)

Elements(vs) == [i \in 1..Len(vs) |-> Element(vs[i])]

NilPtr == V("ptr", 0, EmptyString, TRUE, "", <<>>)
PtrTo(v) == V("ptr", 0, EmptyString, FALSE, "", <<Element(v)>>)
NilInterface == V("interface", 0, EmptyString, TRUE, "", <<>>)
InterfaceOf(v) == V("interface", 0, EmptyString, FALSE, "", <<Element(v)>>)
StructV(fields) == V("struct", 0, EmptyString, FALSE, "", fields)
SliceV(elem, vs) == V("slice", 0, EmptyString, FALSE, elem, Elements(vs))
NilSlice(elem) == V("slice", 0, EmptyString, TRUE, elem, <<>>)
ArrayV(elem, vs) == V("array", 0, EmptyString, FALSE, elem, Elements(vs))
MapV(entries) == V("map", 0, EmptyString, FALSE, "", entries)
NilMap == V("map", 0, EmptyString, TRUE, "", <<>>)

\* v.Elem()
Elem(v) == IF v.isNil THEN InvalidV ELSE v.items[1].v

\* v.Type().String() of the kinds encodeValue rejects
TypeString(v) ==
  CASE v.kind = "func" -> "func()"
    [] v.kind = "chan" -> "chan int"
    [] v.kind = "uintptr" -> "uintptr"
    [] v.kind = "unsafe.Pointer" -> "unsafe.Pointer"
    [] OTHER -> v.kind

RECURSIVE IsZero(_)
\* whether v is the zero value of its type (reflect.Zero(t))
IsZero(v) ==
  CASE v.kind \in {"int", "uint8", "bool", "uintptr"} -> v.n = 0
    [] v.kind = "string" -> v.s = EmptyString
    [] v.kind \in {"func", "chan", "ptr", "interface", "slice", "map", "unsafe.Pointer"}
         -> v.isNil
    [] v.kind \in {"struct", "array"}
         -> \A i \in 1..Len(v.items) : IsZero(v.items[i].v)
    [] OTHER -> TRUE

RECURSIVE PointerShaped(_)
\* whether a value of v's type is held in one pointer word: then
\* reflect.Zero(t) and a directly held zero v have equal headers
PointerShaped(v) ==
  \/ v.kind \in {"ptr", "func", "chan", "map", "unsafe.Pointer"}
  \/ /\ v.kind \in {"struct", "array"}
     /\ Len(v.items) = 1
     /\ PointerShaped(v.items[1].v)

-----------------------------------------------------------------------------
(* node (a Go map from string to string-or-node) and the results of the      *)
(* encoder's steps                                                           *)

Str(s) == [tag |-> "string", s |-> s, kv |-> {}]
Node(kv) == [tag |-> "node", s |-> EmptyString, kv |-> kv]

\* n[k] = x
PutFresh(kv, k, x) == {<<k, x>>}

Put(kv, k, x) == {p \in kv : p[1] # k} \cup {<<k, x>>}
\* delete(n, k)
Delete(kv, k) == {p \in kv : p[1] # k}
HasKey(kv, k) == \E p \in kv : p[1] = k
Get(kv, k) == (CHOOSE p \in kv : p[1] = k)[2]

NoError == [msg |-> "", type |-> "", kind |-> ""]
\* panic(t.String() + " has unsupported kind " + t.Kind().String())
UnsupportedKind(v) ==
  [msg |-> "has unsupported kind", type |-> TypeString(v), kind |-> v.kind]
\* the panic of v.Type() on the zero Value
ZeroValuePanic ==
  [msg |-> "reflect: call of reflect.Value.Type on zero Value", type |-> "", kind |-> ""]
\* the panic of v.Interface() on a value read from an unexported field
UnexportedPanic ==
  [msg |-> "reflect.Value.Interface: cannot return value obtained from unexported field or method",
   type |-> "", kind |-> ""]

\* A step's outcome: the value returned, or the panic raised; calls is the
\* set of values encodeValue was invoked on.
Returns(x, calls) == [ok |-> TRUE, val |-> x, err |-> NoError, calls |-> calls]
Panics(err, calls) == [ok |-> FALSE, val |-> Str(EmptyString), err |-> err, calls |-> calls]
Called(r, calls) == [r EXCEPT !.calls = r.calls \cup calls]

-----------------------------------------------------------------------------
(* The encoder: src/encode.go *)

fieldInfo(opts, f) ==
  LET ps == SplitN2(f.tag) IN
  IF f.private THEN [k |-> opts.OmittedKey, oe |-> FALSE]
  ELSE IF f.tag = EmptyString THEN [k |-> f.name, oe |-> FALSE]
  ELSE [k |-> IF ps[1] # EmptyString THEN ps[1] ELSE f.name,
        oe |-> Len(ps) = 2 /\ ps[2] = OMITEMPTY]

\* isEmptyValue.  For a struct the code compares the two reflect.Value
\* headers, reflect.DeepEqual(v, reflect.Zero(t)): the type, the data word
\* and the flags.  Zero(t) of a pointer-shaped type has a nil data word and
\* no flag but the kind; of any other type it points to fresh zeroed memory.
\* So the headers are equal exactly when v is the zero value of a
\* pointer-shaped struct, is held directly (direct: no flagIndir) and was
\* not read from an unexported field (ro: flagRO).
isEmptyValueNilFunc(v, direct, ro) ==
  CASE v.kind \in {"array", "map", "slice"} -> Len(v.items) = 0
    [] v.kind = "string" -> Len(v.s) = 0
    [] v.kind \in {"bool", "int", "uint8", "uintptr"} -> v.n = 0
    [] v.kind \in {"interface", "ptr", "func", "chan"} -> v.isNil
    [] v.kind = "struct" -> PointerShaped(v) /\ IsZero(v) /\ direct /\ ~ro
    [] OTHER -> FALSE

isEmptyValueNoInt(v, direct, ro) ==
  CASE v.kind \in {"array", "map", "slice"} -> Len(v.items) = 0
    [] v.kind = "string" -> Len(v.s) = 0
    [] v.kind \in {"bool", "uint8", "uintptr"} -> v.n = 0
    [] v.kind \in {"interface", "ptr"} -> v.isNil
    [] v.kind = "struct" -> PointerShaped(v) /\ IsZero(v) /\ direct /\ ~ro
    [] OTHER -> FALSE

isEmptyValue(v, direct, ro) ==
  CASE v.kind \in {"array", "map", "slice"} -> Len(v.items) = 0
    [] v.kind = "string" -> Len(v.s) = 0
    [] v.kind \in {"bool", "int", "uint8", "uintptr"} -> v.n = 0
    [] v.kind \in {"interface", "ptr"} -> v.isNil
    [] v.kind = "struct" -> PointerShaped(v) /\ IsZero(v) /\ direct /\ ~ro
    [] OTHER -> FALSE

\* marshalValue: no type of the model has a MarshalText method, so it answers
\* ("", false), unless v was read from an unexported field (ro), when
\* v.Interface() panics.
marshalValue(v, ro) ==
  IF ro THEN Panics(UnexportedPanic, {}) ELSE Returns(Str(EmptyString), {})

encodeBasic(v) ==
  CASE v.kind = "bool" -> IF v.n = 1 THEN <<"t", "r", "u", "e">>
                                     ELSE <<"f", "a", "l", "s", "e">>
    [] v.kind = "int" -> FormatInt(v.n)
    [] v.kind = "uint8" -> FormatUint(v.n)
    [] v.kind = "string" -> v.s

\* string(v.Bytes())
BytesToString(v) == [i \in 1..Len(v.items) |-> Chr(v.items[i].v.n)]

\* getString (node.go): a string is itself; a
\* node stands for the string under its empty key, or for ""
getString(x) ==
  IF x.tag = "string" THEN x.s
  ELSE IF HasKey(x.kv, EmptyString) /\ Get(x.kv, EmptyString).tag = "string"
       THEN Get(x.kv, EmptyString).s
       ELSE EmptyString

\* getNode (node.go): a bare string becomes the
\* node holding it under the empty key
getNode(x) == IF x.tag = "string" THEN Node({<<EmptyString, x>>}) ELSE x

\* strconv.Itoa(i), the key of element i of a sequence
IndexKeyOneBased(i) == FormatInt(i + 1)

IndexKey(i) == FormatInt(i)

\* How a value read out of v is held.  direct: v's header holds the data
\* word itself (no flagIndir); a field or an array element is held as its
\* parent is when the parent is pointer-shaped, and behind an address
\* otherwise; what Elem() of an interface, MapKeys() and MapIndex() give is
\* held directly; what Elem() of a pointer and Index() of a slice give is not.
DirectField(v, direct) == direct /\ PointerShaped(v)
DirectElem(v) == v.kind = "interface"

RECURSIVE encodeValue(_, _, _, _), encodeFields(_, _, _, _, _, _),
          encodeEntries(_, _, _, _, _), encodeElements(_, _, _, _, _, _)

\* encodeStruct's loop from field i on, n being the node built so far
encodeFields(e, v, direct, ro, i, n) ==
  IF i > Len(v.items) THEN {Returns(Node(n), {})}
  ELSE
    LET f == v.items[i]
        fi == fieldInfo(e, f)
        fv == f.v
        fdirect == DirectField(v, direct)
        fro == ro \/ f.private
    IN
    IF fi.k = <<Dash>> THEN encodeFields(e, v, direct, ro, i + 1, n)
    ELSE IF fi.oe /\ isEmptyValue(fv, fdirect, fro)
    THEN encodeFields(e, v, direct, ro, i + 1, Delete(n, fi.k))
    ELSE UNION {
      IF r.ok
      THEN {Called(q, r.calls) :
              q \in encodeFields(e, v, direct, ro, i + 1, Put(n, fi.k, r.val))}
      ELSE {r}
      : r \in encodeValue(e, fv, fdirect, fro) }

encodeStruct(e, v, direct, ro) == encodeFields(e, v, direct, ro, 1, {})

\* encodeMap's loop over the entries not yet visited (left), in any order:
\* v.MapKeys() gives the keys in an unspecified order
encodeEntries(e, v, ro, left, n) ==
  IF left = {} THEN {Returns(Node(n), {})}
  ELSE UNION { UNION {
      IF ~rk.ok THEN {rk}
      ELSE UNION {
        IF ~rv.ok THEN {Called(rv, rk.calls)}
        ELSE {Called(q, rk.calls \cup rv.calls) :
                q \in encodeEntries(e, v, ro, left \ {i},
                                    Put(n, getString(rk.val), rv.val))}
        : rv \in encodeValue(e, v.items[i].v, TRUE, ro) }
      : rk \in encodeValue(e, v.items[i].key, TRUE, ro) }
    : i \in left }

encodeMap(e, v, ro) == encodeEntries(e, v, ro, 1..Len(v.items), {})

\* the loop of encodeArray and encodeSlice from index i (zero-based) on
encodeElements(e, v, direct, ro, i, n) ==
  IF i >= Len(v.items) THEN {Returns(Node(n), {})}
  ELSE UNION {
    IF r.ok
    THEN {Called(q, r.calls) :
            q \in encodeElements(e, v, direct, ro, i + 1, Put(n, IndexKey(i), r.val))}
    ELSE {r}
    : r \in encodeValue(e, v.items[i + 1].v, direct, ro) }

encodeArray(e, v, direct, ro) ==
  encodeElements(e, v, DirectField(v, direct), ro, 0, {})

encodeSlice(e, v, ro) ==
  IF v.elem = "uint8" THEN {Returns(Str(BytesToString(v)), {})}
  ELSE encodeElements(e, v, FALSE, ro, 0, {})

encodeValue(e, v, direct, ro) ==
  IF v.kind = "invalid" THEN {Panics(ZeroValuePanic, {v})}
  ELSE IF ~marshalValue(v, ro).ok THEN {Called(marshalValue(v, ro), {v})}
  ELSE IF ~e.Zeros /\ isEmptyValue(v, direct, ro) THEN {Returns(Str(EmptyString), {v})}
  ELSE {Called(r, {v}) : r \in
    CASE v.kind \in {"ptr", "interface"} -> encodeValue(e, Elem(v), DirectElem(v), ro)
      [] v.kind = "struct" -> encodeStruct(e, v, direct, ro)
      [] v.kind = "slice" -> encodeSlice(e, v, ro)
      [] v.kind = "array" -> encodeArray(e, v, direct, ro)
      [] v.kind = "map" -> encodeMap(e, v, ro)
      [] v.kind \in {"uintptr", "unsafe.Pointer", "chan", "func"}
           -> {Panics(UnsupportedKind(v), {})}
      [] OTHER -> {Returns(Str(encodeBasic(v)), {})} }

\* encodeToNode: the deferred recover turns a panic into the error returned.
\* v is reflect.ValueOf(dst), which holds a pointer-shaped dst directly.
encodeToNode(e, v) ==
  {IF r.ok THEN [r EXCEPT !.val = getNode(r.val)] ELSE r :
     r \in encodeValue(e, v, TRUE, FALSE)}

-----------------------------------------------------------------------------
(* Flattening: node.values and escape belong to node.go and follow the       *)
(* documented behaviour of the key flattener.                                *)

RECURSIVE escape(_, _, _)
\* every delimiter and every escape character of s gets the escape before it
escape(d, e, s) ==
  IF s = EmptyString THEN EmptyString
  ELSE (IF Head(s) = d \/ Head(s) = e THEN <<e, Head(s)>> ELSE <<Head(s)>>)
       \o escape(d, e, Tail(s))

RECURSIVE merge(_, _, _, _, _)
\* the leaves under node n, whose path so far is path and whose key so far
\* is p: a leaf is [path, key, value], path being the unescaped segments
merge(n, d, e, path, p) ==
  UNION {
    LET k == x[1]
        key == IF path = <<>> THEN escape(d, e, k) ELSE p \o <<d>> \o escape(d, e, k)
    IN IF x[2].tag = "string"
       THEN {[path |-> Append(path, k), key |-> key, value |-> x[2].s]}
       ELSE merge(x[2].kv, d, e, Append(path, k), key)
    : x \in n }

\* n.values(d, e): one leaf per pair added to the url.Values
values(n, d, e) == merge(n.kv, d, e, <<>>, EmptyString)

-----------------------------------------------------------------------------
(* Inputs *)

MaxInt == 2
MaxLen == 2

SeqsUpTo(S, n) == UNION {[1..k -> S] : k \in 0..n}

RECURSIVE SetToSeq(_)
SetToSeq(S) ==
  IF S = {} THEN <<>> ELSE LET x == CHOOSE y \in S : TRUE IN <<x>> \o SetToSeq(S \ {x})

kA == <<"A">>
kB == <<"B">>
kC == <<"C">>
kX == <<"x">>

Tags ==
  {EmptyString, kX, <<Dash>>, <<Comma>> \o OMITEMPTY, kX \o <<Comma>> \o OMITEMPTY,
   <<Dash, Comma>> \o OMITEMPTY}

ByteSeqs ==
  {SliceV("uint8", <<Uint8V(104), Uint8V(105)>>), SliceV("uint8", <<>>),
   ArrayV("uint8", <<Uint8V(104), Uint8V(105)>>), ArrayV("uint8", <<>>)}

Atoms ==
  {IntV(i) : i \in 0..MaxInt}
  \cup {StringV(EmptyString), StringV(<<"a">>), StringV(<<"a", Dot, "b">>), BoolV(FALSE), BoolV(TRUE)}
  \cup {FuncV(TRUE), FuncV(FALSE), ChanV(TRUE), ChanV(FALSE)}
  \cup {NilPtr, NilInterface, PtrTo(IntV(0)), InterfaceOf(IntV(1)), PtrTo(FuncV(TRUE))}
  \cup ByteSeqs
  \cup {SliceV("int", <<IntV(2), IntV(3)>>), NilSlice("int"), ArrayV("int", <<IntV(2), IntV(3)>>),
        NilMap}

\* the values the tagged fields of the structs hold
FieldValues ==
  {IntV(0), IntV(1), StringV(EmptyString), FuncV(TRUE), ChanV(FALSE), NilPtr, NilInterface,
   PtrTo(IntV(0)), SliceV("uint8", <<Uint8V(104), Uint8V(105)>>), NilSlice("int")}

\* what the interface-typed elements of the sequences and values of the maps hold
Members ==
  {NilInterface}
  \cup {InterfaceOf(v) :
          v \in {IntV(0), IntV(1), NilPtr, FuncV(TRUE), ChanV(FALSE),
                 StructV(<<Field(kB, <<Comma>> \o OMITEMPTY, IntV(0))>>)}}

ElementsOf(elem) ==
  CASE elem = "interface" -> Members
    [] elem = "ptr" -> {NilPtr, PtrTo(IntV(1))}
    [] elem = "func" -> {FuncV(TRUE), FuncV(FALSE)}
    [] elem = "int" -> {IntV(i) : i \in 0..MaxInt}

Sequences ==
  UNION { {SliceV(elem, s) : s \in SeqsUpTo(ElementsOf(elem), MaxLen)}
          \cup {ArrayV(elem, s) : s \in SeqsUpTo(ElementsOf(elem), MaxLen)}
          : elem \in {"interface", "ptr", "func", "int"} }

StringKeys == {StringV(<<"a">>), StringV(<<"a", Dot, "b">>), StringV(<<Backslash>>)}
\* keys of a map[interface{}]T: the first two classify to the same string
InterfaceKeys == {InterfaceOf(IntV(1)), InterfaceOf(StringV(<<"1">>)), InterfaceOf(StringV(<<"a">>))}

EntriesOver(K) ==
  UNION { {[i \in 1..Len(SetToSeq(ks)) |-> Entry(SetToSeq(ks)[i], f[SetToSeq(ks)[i]])] :
             f \in [ks -> Members]}
          : ks \in {s \in SUBSET K : s # {} /\ Cardinality(s) <= MaxLen} }

Maps == {MapV(es) : es \in EntriesOver(StringKeys) \cup EntriesOver(InterfaceKeys)}

Siblings ==
  {Field(kB, EmptyString, IntV(1)), Field(kB, kA, IntV(1)),
   Field(kB, kA \o <<Comma>> \o OMITEMPTY, IntV(0)), Field(kB, EmptyString, FuncV(TRUE))}

Subjects ==
  {Field(kA, tag, v) : tag \in Tags, v \in FieldValues}
  \cup {Field(kA, EmptyString, v) : v \in Atoms}
  \cup {PrivateField(<<"a">>, EmptyString, v) : v \in FieldValues}

\* a struct of one field, alone or with one more field before or after it
Structs ==
  {StructV(<<>>)}
  \cup {StructV(<<f>>) : f \in Subjects}
  \cup {StructV(<<s, f>>) : s \in Siblings, f \in Subjects}
  \cup {StructV(<<f, s>>) : s \in Siblings, f \in Subjects}

\* {A: {B: 1, C: [2, 3]}}, as structs and as maps, and a map of maps
Nested ==
  {StructV(<<Field(kA, EmptyString,
       StructV(<<Field(kB, EmptyString, IntV(1)),
                 Field(kC, EmptyString, SliceV("int", <<IntV(2), IntV(3)>>))>>))>>),
   MapV(<<Entry(StringV(kA),
       InterfaceOf(MapV(<<Entry(StringV(kB), InterfaceOf(IntV(1))),
                          Entry(StringV(kC), InterfaceOf(SliceV("int", <<IntV(2), IntV(3)>>)))>>)))>>),
   MapV(<<Entry(StringV(<<"a">>),
            MapV(<<Entry(StringV(<<"a">>), IntV(1)), Entry(StringV(<<Dot>>), FuncV(TRUE))>>)),
          Entry(StringV(<<"a", Dot>>),
            MapV(<<Entry(StringV(EmptyString), IntV(2)), Entry(StringV(<<"b">>), NilPtr)>>))>>),
   MapV(<<Entry(StringV(<<"a">>),
            MapV(<<Entry(StringV(<<"a">>), IntV(1)), Entry(StringV(<<Dot>>), IntV(2))>>)),
          Entry(StringV(<<"a", Dot>>),
            MapV(<<Entry(StringV(EmptyString), IntV(2)), Entry(StringV(<<"b">>), IntV(0))>>))>>),
   PtrTo(StructV(<<Field(kA, EmptyString, PtrTo(StructV(<<Field(kB, EmptyString, NilPtr)>>)))>>))}

\* reflect.ValueOf(dst) for the values given to the encoder; InvalidV is
\* ValueOf(nil)
Inputs == {InvalidV} \cup Atoms \cup Sequences \cup Maps \cup Structs \cup Nested

Runes == {Dot, Backslash}

\* the Options handed to EncodeToStringWith and EncodeToValuesWith
WithOptions ==
  {[Default EXCEPT !.Zeros = z, !.OmittedKey = k] : z \in BOOLEAN, k \in {<<Dash>>, kX}}

-----------------------------------------------------------------------------
(* The encoder as a state machine: an Encoder made by NewEncoder(w) is       *)
(* configured by its setters, and then one of the encoding entry points is   *)
(* called on dst.                                                            *)
(*   o   : the Encoder's Options          arg : the Options of the call      *)
(*   op  : the entry point called         ret : what the call returned       *)
(*   w   : what the Encoder's Writer has been given                          *)

NoReturn == [err |-> NoError, out |-> {}, calls |-> {}, built |-> FALSE, node |-> Str(EmptyString)]

Init ==
  /\ o = Default
  /\ dst \in Inputs
  /\ op = "NewEncoder"
  /\ arg = Default
  /\ ret = NoReturn
  /\ w = <<>>

DelimitWith(r) ==
  /\ op = "NewEncoder"
  /\ o' = [o EXCEPT !.Delimiter = r]
  /\ UNCHANGED <<dst, op, arg, ret, w>>

EscapeWith(r) ==
  /\ op = "NewEncoder"
  /\ o' = [o EXCEPT !.Escape = r]
  /\ UNCHANGED <<dst, op, arg, ret, w>>

KeepZeros(z) ==
  /\ op = "NewEncoder"
  /\ o' = [o EXCEPT !.Zeros = z]
  /\ UNCHANGED <<dst, op, arg, ret, w>>

ErrShortWrite == [msg |-> "could not write data completely", type |-> "", kind |-> ""]
ErrWriter == [msg |-> "write error", type |-> "", kind |-> ""]

\* Encode: the Writer takes the whole string, fails, or takes a part of it
Encode ==
  /\ op = "NewEncoder"
  /\ \E r \in encodeToNode(o, dst), wrote \in {"all", "error", "short"} :
       /\ op' = "Encode"
       /\ arg' = o
       /\ IF ~r.ok
          THEN /\ ret' = [err |-> r.err, out |-> {}, calls |-> r.calls, built |-> FALSE,
                          node |-> r.val]
               /\ w' = w
          ELSE /\ w' = Append(w, [s |-> values(r.val, o.Delimiter, o.Escape),
                                  complete |-> wrote = "all"])
               /\ ret' = [err |-> CASE wrote = "all" -> NoError
                                    [] wrote = "error" -> ErrWriter
                                    [] wrote = "short" -> ErrShortWrite,
                          out |-> {}, calls |-> r.calls, built |-> TRUE, node |-> r.val]
  /\ UNCHANGED <<o, dst>>

\* the body shared by EncodeToStringWith and EncodeToValuesWith
EncodeWith(name, opts) ==
  /\ op = "NewEncoder"
  /\ \E r \in encodeToNode(opts, dst) :
       /\ op' = name
       /\ arg' = opts
       /\ ret' = [err |-> r.err,
                  out |-> IF r.ok THEN values(r.val, opts.Delimiter, opts.Escape) ELSE {},
                  calls |-> r.calls, built |-> r.ok, node |-> r.val]
  /\ UNCHANGED <<o, dst, w>>

EncodeToString == EncodeWith("EncodeToString", Default)
EncodeToStringWith(opts) == EncodeWith("EncodeToStringWith", opts)
EncodeToValues == EncodeWith("EncodeToValues", Default)
EncodeToValuesWith(opts) == EncodeWith("EncodeToValuesWith", opts)

Next ==
  \/ \E r \in Runes : DelimitWith(r)
  \/ \E r \in Runes : EscapeWith(r)
  \/ \E z \in BOOLEAN : KeepZeros(z)
  \/ Encode
  \/ EncodeToString
  \/ \E opts \in WithOptions : EncodeToStringWith(opts)
  \/ EncodeToValues
  \/ \E opts \in WithOptions : EncodeToValuesWith(opts)

Spec == Init /\ [][Next]_vars

-----------------------------------------------------------------------------
(* Properties of the encoder *)

Finished == op # "NewEncoder"

\* the pairs the call produced: written by Encode, returned by the others
Output == IF op = "Encode" THEN (IF w = <<>> THEN {} ELSE w[1].s) ELSE ret.out

\* the tag grammar "name" or "name,omitempty"
TagName(tag) == SplitN2(tag)[1]
TagOmitEmpty(tag) == Len(SplitN2(tag)) = 2 /\ SplitN2(tag)[2] = OMITEMPTY
FieldKey(f) == IF TagName(f.tag) = EmptyString THEN f.name ELSE TagName(f.tag)

\* the exported, not omitted integer fields of dst that hold 0 and whose key
\* no other field of dst has
IntZeroFields ==
  {i \in 1..Len(dst.items) :
     /\ dst.items[i].v = IntV(0)
     /\ ~dst.items[i].private
     /\ FieldKey(dst.items[i]) \notin {<<Dash>>, arg.OmittedKey}
     /\ \A j \in 1..Len(dst.items) :
          j # i /\ ~dst.items[j].private => FieldKey(dst.items[j]) # FieldKey(dst.items[i])}

\* C2: in the composite of a struct, an integer field that holds 0 is mapped
\* to "" when Zeros is off and to "0" when Zeros is on, and is absent, for
\* both values of Zeros, when its tag says omitempty.
C2_ZeroValueElision ==
  (Finished /\ dst.kind = "struct" /\ ret.built) =>
    \A i \in IntZeroFields :
      LET f == dst.items[i]
          k == FieldKey(f)
      IN IF TagOmitEmpty(f.tag)
         THEN ~HasKey(ret.node.kv, k)
         ELSE /\ HasKey(ret.node.kv, k)
              /\ Get(ret.node.kv, k) = Str(IF arg.Zeros THEN <<"0">> ELSE EmptyString)

C2_Witness ==
  /\ op = "Encode" /\ dst.kind = "struct" /\ ret.built /\ arg.Zeros
  /\ \E i \in IntZeroFields :
       /\ TagOmitEmpty(dst.items[i].tag)
       /\ ~HasKey(ret.node.kv, FieldKey(dst.items[i]))
  /\ \E i \in IntZeroFields :
       /\ ~TagOmitEmpty(dst.items[i].tag)
       /\ Get(ret.node.kv, FieldKey(dst.items[i])) = Str(<<"0">>)

RECURSIVE JoinPath(_, _, _)
\* the escaped segments of path joined by the delimiter
JoinPath(path, d, e) ==
  IF Len(path) = 1 THEN escape(d, e, path[1])
  ELSE JoinPath(SubSeq(path, 1, Len(path) - 1), d, e) \o <<d>> \o escape(d, e, path[Len(path)])

RECURSIVE NodeLeaves(_, _)
\* the scalar leaves of a node tree, each with the path of segments to it
NodeLeaves(n, path) ==
  UNION { IF x[2].tag = "string"
          THEN {[path |-> Append(path, x[1]), value |-> x[2].s]}
          ELSE NodeLeaves(x[2], Append(path, x[1]))
          : x \in n.kv }

ExampleStruct ==
  StructV(<<Field(kA, EmptyString,
     StructV(<<Field(kB, EmptyString, IntV(1)),
               Field(kC, EmptyString, SliceV("int", <<IntV(2), IntV(3)>>))>>))>>)

ExampleMap ==
  MapV(<<Entry(StringV(kA),
     InterfaceOf(MapV(<<Entry(StringV(kB), InterfaceOf(IntV(1))),
                        Entry(StringV(kC), InterfaceOf(SliceV("int", <<IntV(2), IntV(3)>>)))>>)))>>)

ExamplePairs ==
  {<<<<"A", ".", "B">>, <<"1">>>>,
   <<<<"A", ".", "C", ".", "0">>, <<"2">>>>,
   <<<<"A", ".", "C", ".", "1">>, <<"3">>>>}

\* C3: every scalar leaf of the tree yields exactly one pair, whose key is
\* the escaped segments from the root to the leaf joined by the delimiter,
\* with no leading delimiter; {A: {B: 1, C: [2, 3]}} with delimiter '.'
\* yields exactly A.B=1, A.C.0=2, A.C.1=3.
C3_CompositeKeys ==
  (Finished /\ ret.built /\ (op = "Encode" => w # <<>>)) =>
    /\ {[path |-> l.path, value |-> l.value] : l \in Output} = NodeLeaves(ret.node, <<>>)
    /\ Cardinality(Output) = Cardinality(NodeLeaves(ret.node, <<>>))
    /\ \A l \in Output : l.key = JoinPath(l.path, arg.Delimiter, arg.Escape)
    /\ (dst \in {ExampleStruct, ExampleMap} /\ arg.Delimiter = Dot) =>
         {<<l.key, l.value>> : l \in Output} = ExamplePairs

C3_Witness ==
  /\ op = "EncodeToValuesWith" /\ ret.built /\ dst = ExampleStruct /\ arg.Delimiter = Dot
  /\ {<<l.key, l.value>> : l \in Output} = ExamplePairs

\* C4 (the claim as stated): for valid Options, a struct's private fields
\* and the fields whose tag name is the configured OmittedKey are dropped:
\* no value of a private field is classified, and the composite has no
\* entry under the omitted key.
C4_OmittedFieldsDropped ==
  (Finished /\ IsValid(arg) /\ dst.kind = "struct") =>
    /\ ret.err # UnexportedPanic
    /\ ret.built => ~HasKey(ret.node.kv, arg.OmittedKey)

EntryPoints == {"Encode", "EncodeToString", "EncodeToValues"}

UnsupportedReached == {v \in ret.calls : v.kind \in {"func", "chan"}}

\* C5: when Encode, EncodeToString or EncodeToValues reaches a value of
\* function or channel kind, the call returns an error naming that value's
\* type and kind, nothing is written and the result is empty.
C5_UnsupportedKindFails ==
  (op \in EntryPoints /\ UnsupportedReached # {}) =>
    /\ \E v \in UnsupportedReached : ret.err = UnsupportedKind(v)
    /\ ~ret.built
    /\ ret.out = {}
    /\ w = <<>>

C5_Witness ==
  /\ op = "Encode" /\ ~arg.Zeros /\ dst.kind = "struct"
  /\ \E i \in 1..Len(dst.items) : dst.items[i].v = FuncV(TRUE)
  /\ ret.err = UnsupportedKind(FuncV(TRUE))
  /\ w = <<>>

\* C6 (the claim as stated): a non-empty byte slice or byte array is encoded
\* as the one scalar made of its bytes, and a non-empty sequence of any other
\* element type as a composite keyed by the decimal indices from zero.
C6_ByteSequenceScalar ==
  (Finished /\ ret.built /\ dst.kind \in {"slice", "array"} /\ Len(dst.items) > 0) =>
    IF dst.elem = "uint8"
    THEN ret.node = Node({<<EmptyString, Str(BytesToString(dst))>>})
    ELSE {x[1] : x \in ret.node.kv} = {FormatInt(i) : i \in 0..(Len(dst.items) - 1)}

RECURSIVE ContainsNil(_)
\* whether v holds a nil pointer or a nil interface somewhere
ContainsNil(v) ==
  \/ v.kind \in {"ptr", "interface"} /\ v.isNil
  \/ \E i \in 1..Len(v.items) : ContainsNil(v.items[i].v)

\* C9 (the claim as stated): for both values of Zeros, a nil pointer or a
\* nil interface inside the value is a zero value and never aborts the
\* encode.
C9_NilIsZeroValue ==
  (Finished /\ ContainsNil(dst)) => ret.err # ZeroValuePanic

RECURSIVE MapsIn(_)
\* the maps inside v, v included
MapsIn(v) ==
  (IF v.kind = "map" THEN {v} ELSE {})
  \cup UNION {MapsIn(v.items[i].v) : i \in 1..Len(v.items)}

\* the string a map key classifies to
KeyString(e, k) ==
  LET r == CHOOSE x \in encodeValue(e, k, TRUE, FALSE) : TRUE IN
  IF r.ok THEN getString(r.val) ELSE EmptyString

NoKeyCollision(e, v) ==
  \A m \in MapsIn(v) : \A i, j \in 1..Len(m.items) :
     i # j => KeyString(e, m.items[i].key) # KeyString(e, m.items[j].key)

\* C10: when no two keys of a map classify to the same string, every order
\* in which encodeMap may visit the entries gives the outcome this call
\* had: a failure in every order, or the same tree in every order.
C10_MapOrderIrrelevant ==
  (Finished /\ NoKeyCollision(arg, dst)) =>
    \A r \in encodeToNode(arg, dst) :
      /\ r.ok = ret.built
      /\ r.ok => r.val = ret.node

C10_Witness ==
  /\ Finished /\ ret.built /\ dst.kind = "map" /\ Len(dst.items) > 1
  /\ NoKeyCollision(arg, dst)
  /\ \E m \in MapsIn(dst) : m # dst /\ Len(m.items) > 1

RECURSIVE unescape(_, _, _)
\* unescape (node.go), as the inverse the key
\* grammar calls for: an escape character is dropped and the character after
\* it is kept as it is
unescape(d, e, s) ==
  IF s = EmptyString THEN EmptyString
  ELSE IF Head(s) = e /\ Len(s) > 1 THEN <<s[2]>> \o unescape(d, e, SubSeq(s, 3, Len(s)))
  ELSE <<Head(s)>> \o unescape(d, e, Tail(s))

RECURSIVE Escaping(_, _, _)
\* whether the character at position i of x is an escape character that
\* escapes the character after it
Escaping(x, e, i) ==
  /\ i >= 1
  /\ x[i] = e
  /\ ~Escaping(x, e, i - 1)

\* no delimiter of x stands without an escaping escape character before it
NoBareDelimiter(x, d, e) ==
  \A i \in 1..Len(x) : x[i] = d => Escaping(x, e, i - 1)

\* C7 (the claim as stated): for every delimiter/escape pair Validate
\* accepts, the pair being one character included, every segment survives
\* escape and unescape, its escaped form has no bare delimiter, and a
\* composite key stands for one path only.
C7_EscapeRoundTrip ==
  (Finished /\ ret.built /\ IsValid(arg)) =>
    /\ \A l \in Output : \A i \in 1..Len(l.path) :
         /\ unescape(arg.Delimiter, arg.Escape, escape(arg.Delimiter, arg.Escape, l.path[i]))
              = l.path[i]
         /\ NoBareDelimiter(escape(arg.Delimiter, arg.Escape, l.path[i]),
                            arg.Delimiter, arg.Escape)
    /\ \A l1, l2 \in Output : l1.key = l2.key => l1.path = l2.path

-----------------------------------------------------------------------------
(* Options.Validate, IsValid and MustValidate on any Options value *)

AllOptions ==
  [unexported : {0, 1}, Zeros : BOOLEAN, Tolerant : BOOLEAN, Caseless : BOOLEAN,
   Delimiter : {NUL, Dot, Backslash}, Escape : {NUL, Dot, Backslash},
   ImplicitKey : {EmptyString, StandardImplicitKey},
   OmittedKey : {EmptyString, StandardOmittedKey, kX}]

InitOptions ==
  /\ o \in AllOptions
  /\ dst = InvalidV
  /\ op = "Options"
  /\ arg = o
  /\ ret = nil
  /\ w = <<>>

CallValidate ==
  /\ op = "Options"
  /\ op' = "Validate"
  /\ ret' = Validate(o)
  /\ UNCHANGED <<o, dst, arg, w>>

CallIsValid ==
  /\ op = "Options"
  /\ op' = "IsValid"
  /\ ret' = IF IsValid(o) THEN "true" ELSE "false"
  /\ UNCHANGED <<o, dst, arg, w>>

\* MustValidate returns o, or panics with the error of Validate
CallMustValidate ==
  /\ op = "Options"
  /\ op' = "MustValidate"
  /\ ret' = IF Validate(o) # nil THEN "panic" ELSE "returns"
  /\ UNCHANGED <<o, dst, arg, w>>

NextOptions == CallValidate \/ CallIsValid \/ CallMustValidate

SpecOptions == InitOptions /\ [][NextOptions]_vars

Legal(opts) ==
  /\ opts.Delimiter # NUL
  /\ opts.Escape # NUL
  /\ opts.ImplicitKey # EmptyString
  /\ opts.OmittedKey # EmptyString

\* the options that differ from legal ones in the one field named
OnlyIllegal(opts, field) ==
  /\ (opts.Delimiter = NUL) = (field = "Delimiter")
  /\ (opts.Escape = NUL) = (field = "Escape")
  /\ (opts.ImplicitKey = EmptyString) = (field = "ImplicitKey")
  /\ (opts.OmittedKey = EmptyString) = (field = "OmittedKey")

FullyZero(opts) ==
  /\ opts.unexported = 0 /\ ~opts.Zeros /\ ~opts.Tolerant /\ ~opts.Caseless
  /\ opts.Delimiter = NUL /\ opts.Escape = NUL
  /\ opts.ImplicitKey = EmptyString /\ opts.OmittedKey = EmptyString

\* C1: Validate returns nil for legal Delimiter, Escape, ImplicitKey and
\* OmittedKey whatever Zeros, Tolerant and Caseless are, the matching error
\* when exactly one of the four is zero or empty, and ErrInvalidOptions for
\* the zero Options; IsValid is true exactly when Validate returns nil.
C1_ValidityTable ==
  /\ op = "Validate" =>
       /\ Legal(o) => ret = nil
       /\ OnlyIllegal(o, "Delimiter") => ret = ErrInvalidDelimiter
       /\ OnlyIllegal(o, "Escape") => ret = ErrInvalidEscape
       /\ OnlyIllegal(o, "ImplicitKey") => ret = ErrInvalidImplicitKey
       /\ OnlyIllegal(o, "OmittedKey") => ret = ErrInvalidOmittedKey
       /\ FullyZero(o) => ret = ErrInvalidOptions
       /\ ret = nil => Legal(o)
  /\ op = "IsValid" => (ret = "true") = Legal(o)

C1_Witness ==
  /\ op = "Validate" /\ OnlyIllegal(o, "Escape") /\ o.Zeros /\ o.Caseless
  /\ ret = ErrInvalidEscape

-----------------------------------------------------------------------------
(* findField on a struct *)

RECURSIVE findFieldFrom(_, _, _, _), findEmbedded(_, _, _, _)

\* findField's first loop from field i on: the index of the exact match,
\* or else the case-insensitive match kept (m; 0 stands for -1), with
\* exact telling which
findFieldFrom(opts, v, n, st) ==
  IF st.i > Len(v.items) THEN [exact |-> FALSE, i |-> st.m]
  ELSE LET k == fieldInfo(opts, v.items[st.i]).k IN
    IF k = opts.OmittedKey THEN findFieldFrom(opts, v, n, [i |-> st.i + 1, m |-> st.m])
    ELSE IF n = k THEN [exact |-> TRUE, i |-> st.i]
    ELSE IF opts.Caseless /\ ToLower(n) = ToLower(k)
         THEN findFieldFrom(opts, v, n, [i |-> st.i + 1, m |-> st.i])
         ELSE findFieldFrom(opts, v, n, [i |-> st.i + 1, m |-> st.m])

\* the struct an embedded field leads to through pointers and interfaces,
\* or InvalidV
RECURSIVE Indirect(_)
Indirect(fv) == IF fv.kind \in {"ptr", "interface"} THEN Indirect(Elem(fv)) ELSE fv

\* findField: the path of field indices to the field found, <<>> when none
findField(opts, v, n) ==
  LET named == findFieldFrom(opts, v, n, [i |-> 1, m |-> 0]) IN
  IF named.i # 0 THEN <<named.i>> ELSE findEmbedded(opts, v, n, 1)

\* findField's second loop from field i on
findEmbedded(opts, v, n, i) ==
  IF i > Len(v.items) THEN <<>>
  ELSE LET f == v.items[i]
           k == fieldInfo(opts, f).k
           fv == Indirect(f.v)
       IN IF k = opts.OmittedKey \/ ~f.anonymous \/ fv.kind # "struct"
          THEN findEmbedded(opts, v, n, i + 1)
          ELSE IF findField(opts, fv, n) # <<>>
               THEN <<i>> \o findField(opts, fv, n)
               ELSE findEmbedded(opts, v, n, i + 1)

kFoo == <<"F", "o", "o">>
kfoo == <<"f", "o", "o">>
kFOO == <<"F", "O", "O">>
kInner == <<"I", "n", "n", "e", "r">>

Names == {kFoo, kfoo, kX}

InnerStructs ==
  {StructV(<<Field(kFoo, EmptyString, IntV(1))>>),
   StructV(<<Field(kFOO, EmptyString, IntV(1)), Field(kX, kfoo, IntV(2))>>),
   StructV(<<Embedded(kInner, EmptyString, StructV(<<Field(kX, kFoo, IntV(1))>>))>>)}

FindFields ==
  {Field(kFoo, EmptyString, IntV(1)), Field(kFOO, EmptyString, IntV(1)),
   Field(kA, kfoo, IntV(1)), Field(kB, kX, IntV(1)), Field(kFoo, <<Dash>>, IntV(1)),
   PrivateField(kfoo, EmptyString, IntV(1)), Embedded(kInner, EmptyString, NilPtr)}
  \cup {Embedded(kInner, EmptyString, s) : s \in InnerStructs}
  \cup {Embedded(kInner, kfoo, PtrTo(s)) : s \in InnerStructs}

FindInputs == {StructV(fs) : fs \in SeqsUpTo(FindFields, MaxLen)}

FindOptions ==
  {[Default EXCEPT !.Caseless = c, !.OmittedKey = k] : c \in BOOLEAN, k \in {<<Dash>>, kX}}

InitFind ==
  /\ o \in FindOptions
  /\ dst \in FindInputs
  /\ op = "decoder"
  /\ arg = EmptyString
  /\ ret = <<>>
  /\ w = <<>>

FindField(n) ==
  /\ op = "decoder"
  /\ op' = "findField"
  /\ arg' = n
  /\ ret' = findField(o, dst, n)
  /\ UNCHANGED <<o, dst, w>>

NextFind == \E n \in Names : FindField(n)

SpecFind == InitFind /\ [][NextFind]_vars

\* a field findField may return at its own level: exported and not omitted
Visible(opts, f) == ~f.private /\ FieldKey(f) # opts.OmittedKey

Matches(opts, v, n, fold) ==
  {i \in 1..Len(v.items) :
     /\ Visible(opts, v.items[i])
     /\ IF fold THEN ToLower(FieldKey(v.items[i])) = ToLower(n)
                ELSE FieldKey(v.items[i]) = n}

Least(S) == CHOOSE i \in S : \A j \in S : i <= j

RECURSIVE Resolve(_, _, _)
\* the order the claim gives: the exact match, else with Caseless the first
\* case-insensitive match, else the first find in the embedded structs
Resolve(opts, v, n) ==
  IF Matches(opts, v, n, FALSE) # {} THEN <<Least(Matches(opts, v, n, FALSE))>>
  ELSE IF opts.Caseless /\ Matches(opts, v, n, TRUE) # {}
       THEN <<Least(Matches(opts, v, n, TRUE))>>
  ELSE LET E == {i \in 1..Len(v.items) :
                   /\ Visible(opts, v.items[i])
                   /\ v.items[i].anonymous
                   /\ Indirect(v.items[i].v).kind = "struct"
                   /\ Resolve(opts, Indirect(v.items[i].v), n) # <<>>}
       IN IF E = {} THEN <<>>
          ELSE <<Least(E)>> \o Resolve(opts, Indirect(v.items[Least(E)].v), n)

\* C8 (the claim as stated): findField returns the exact match, else with
\* Caseless the first case-insensitive match in declaration order, else the
\* first field found depth-first in the embedded structs.
C8_FieldResolutionOrder ==
  op = "findField" => ret = Resolve(o, dst, arg)

=============================================================================
